---------------------------- MODULE Spec2Model ----------------------------
(***************************************************************************)
(* Model of src/t_stress.c: the stress test of the single-consumer,        *)
(* multi-producer ring buffer.  main/run_test (the orchestrator), the      *)
(* workers of ringbuf_stress, the SIGALRM handler ding and the message     *)
(* codec (fast_random, generate_message, verify_message) are translated    *)
(* from the C source.  The ring buffer itself (ringbuf.h) is not part of   *)
(* the source file; it is modelled from its documented contract, every     *)
(* operation being one atomic step.                                        *)
(*                                                                         *)
(* Memory is modelled as functions from zero-based offsets to bytes.       *)
(* RBUF_SIZE is 512 in the source; the model scales it down (it is a bound *)
(* of the model), and with it the private buffer MIN(1 << CHAR_BIT,        *)
(* RBUF_SIZE) of a producer.  assert() is modelled as compiled in: a       *)
(* failing assertion aborts the whole process.                             *)
(*                                                                         *)
(* Spec is the program over a ring buffer that honours its contract,       *)
(* FairSpec the same under fair scheduling.  CodecSpec applies the codec   *)
(* alone to a range of generator states and buffer lengths.  FlipSpec and  *)
(* FaultSpec run the program with a frame corrupted in the shared array    *)
(* and over a ring buffer that breaks its contract.                        *)
(* SetupFailSpec adds the failures of pthread_create, calloc and           *)
(* ringbuf_register during the setup.                                      *)
(***************************************************************************)
EXTENDS Integers, Sequences, FiniteSets, TLC

(***************************************************************************)
(* Bounds of the model.                                                    *)
(***************************************************************************)
\* capacity of the shared region (512 in the source, scaled down)
RBUF_SIZE == 7
\* largest value sysconf(_SC_NPROCESSORS_CONF) takes
MaxProcs == 2
\* largest test duration, in seconds, given on the command line (a run
\* without the argument keeps the default of 10)
MaxSec == 0
\* loop iterations the producers may start between them (each one draws
\* from its generator)
MaxIter == 3
\* faults injected in a run of the specifications with a faulty ring buffer
MaxFaults == 1
\* seeds tried by the codec specification
MaxSeed == 16

(***************************************************************************)
(* Program constants.                                                      *)
(***************************************************************************)
MAGIC_BYTE == 90
INITIAL_SEED == 5381

Min(a, b) == IF a < b THEN a ELSE b

\* (size_t)v of an ssize_t v.  The source's size_t is 64 bits wide; the
\* integers of TLC end at 2^31 - 1, which stands for 2^64 here.
SizeModulus == 2147483647
ToSizeT(v) == IF v < 0 THEN v + SizeModulus ELSE v

\* sizeof(buf) of a producer's private buffer
BufSize == Min(256, RBUF_SIZE)

\* the worker ids the model provides for
Workers == 0..MaxProcs

(***************************************************************************)
(* Bitwise exclusive or of two naturals.                                   *)
(***************************************************************************)
RECURSIVE Xor(_, _)
Xor(a, b) ==
    IF a = 0 THEN b
    ELSE IF b = 0 THEN a
    ELSE (((a % 2) + (b % 2)) % 2) + 2 * Xor(a \div 2, b \div 2)

(***************************************************************************)
(* A uint32_t is kept as its two 16-bit halves, the integers of TLC        *)
(* being too narrow for the whole: the xor is taken half by half, a shift  *)
(* moves bits from one half into the other and drops those that leave the  *)
(* 32-bit word.                                                            *)
(***************************************************************************)
Word(n) == [hi |-> n \div 65536, lo |-> n % 65536]
XorW(a, b) == [hi |-> Xor(a.hi, b.hi), lo |-> Xor(a.lo, b.lo)]
ShlW(a, k) ==
    IF k < 16
    THEN [hi |-> (a.hi % 2^(16 - k)) * 2^k + a.lo \div 2^(16 - k),
          lo |-> (a.lo % 2^(16 - k)) * 2^k]
    ELSE [hi |-> (a.lo % 2^(32 - k)) * 2^(k - 16), lo |-> 0]
ShrW(a, k) ==
    IF k < 16
    THEN [hi |-> a.hi \div 2^k,
          lo |-> a.lo \div 2^k + (a.hi % 2^k) * 2^(16 - k)]
    ELSE [hi |-> 0, lo |-> a.hi \div 2^(k - 16)]

\* the word's value modulo m, m below 2^15
ModW(a, m) == ((a.hi % m) * (65536 % m) + a.lo) % m

(***************************************************************************)
(* fast_random: one xorshift step; the result is also the new seed.  Each  *)
(* intermediate value of x is bound once, as the element of a singleton.   *)
(***************************************************************************)
fast_random(s) ==
    CHOOSE x3 \in
        {XorW(x2, ShlW(x2, 5)) :
            x2 \in {XorW(x1, ShrW(x1, 17)) :
                      x1 \in {XorW(x0, ShlW(x0, 13)) : x0 \in {s}}}} : TRUE

(***************************************************************************)
(* The payload loop of generate_message: n more bytes drawn from the       *)
(* generator whose state is s, after the bytes already written and their   *)
(* running xor.  Yields the bytes, the xor and the seed.  A run of several *)
(* iterations is its first half followed by the rest.                      *)
(***************************************************************************)
RECURSIVE PayloadLoop(_, _, _, _)
PayloadLoop(s, n, bytes, cksum) ==
    IF n = 0 THEN [bytes |-> bytes, cksum |-> cksum, seed |-> s]
    ELSE IF n = 1
    THEN CHOOSE r \in UNION
            {{[bytes |-> b, cksum |-> c, seed |-> x] :
                b \in {Append(bytes, 33 + ModW(x, 126 - 33))},
                c \in {Xor(cksum, 33 + ModW(x, 126 - 33))}} :
             x \in {fast_random(s)}} : TRUE
    ELSE CHOOSE r \in
            {PayloadLoop(h.seed, n - n \div 2, h.bytes, h.cksum) :
                h \in {PayloadLoop(s, n \div 2, bytes, cksum)}} : TRUE

\* the frame and the results of generate_message, given the first draw x
\* and the outcome p of the payload loop
Generated(x, buflen, p, cksum) ==
    [buf  |-> <<ModW(x, buflen - 2) % 256>> \o p.bytes \o <<cksum>>,
     n    |-> ModW(x, buflen - 2) + 2,
     len  |-> ModW(x, buflen - 2),
     seed |-> p.seed]

\* A faulty variant of generate_message: the payload length is drawn from
\* [0, buflen), no room being left for the length and checksum bytes.
generate_message_wide(s, buflen) ==
    CHOOSE g \in UNION
        {{Generated(x, buflen + 2, p, p.cksum) :
            p \in {PayloadLoop(x, ModW(x, buflen), <<>>, 0)}} :
         x \in {fast_random(s)}} : TRUE

\* A faulty variant of generate_message: the length byte counts one byte
\* more than the payload has.
generate_message_longlen(s, buflen) ==
    CHOOSE g \in UNION
        {{[Generated(x, buflen, p, p.cksum) EXCEPT !.buf[1] = @ + 1] :
            p \in {PayloadLoop(x, ModW(x, buflen - 2), <<>>, 0)}} :
         x \in {fast_random(s)}} : TRUE

\* A faulty variant of generate_message: the checksum misses the last
\* payload byte.
generate_message_nocksum(s, buflen) ==
    CHOOSE g \in UNION
        {{Generated(x, buflen, p,
                    IF p.bytes = <<>> THEN 0
                    ELSE Xor(p.cksum, p.bytes[Len(p.bytes)])) :
            p \in {PayloadLoop(x, ModW(x, buflen - 2), <<>>, 0)}} :
         x \in {fast_random(s)}} : TRUE

(***************************************************************************)
(* generate_message(buf, buflen) run with generator state s.  buf is the   *)
(* sequence of the bytes written, buf[0] of the source first; n is the     *)
(* value returned, len the payload length drawn.                           *)
(***************************************************************************)
generate_message(s, buflen) ==
    CHOOSE g \in UNION
        {{Generated(x, buflen, p, p.cksum) :
            p \in {PayloadLoop(x, ModW(x, buflen - 2), <<>>, 0)}} :
         x \in {fast_random(s)}} : TRUE

\* the memory a private buffer occupies: offset i holds element i + 1
SeqMem(s) == [i \in 0..(Len(s) - 1) |-> s[i + 1]]

\* the checksum loop of verify_message: cksum after the n bytes
\* mem[from .. from + n - 1]; a run of several iterations is its first
\* half followed by the rest
RECURSIVE XorLoop(_, _, _, _)
XorLoop(mem, from, n, cksum) ==
    IF n = 0 THEN cksum
    ELSE IF n = 1 THEN Xor(cksum, mem[from])
    ELSE CHOOSE r \in
            {XorLoop(mem, from + n \div 2, n - n \div 2, h) :
                h \in {XorLoop(mem, from, n \div 2, cksum)}} : TRUE

XorRange(mem, from, n) == XorLoop(mem, from, n, 0)

\* A faulty variant of verify_message: the checksum is looked for one
\* byte early.
verify_message_early(mem, off) ==
    LET len == mem[off]
    IN  IF mem[off + len] # XorRange(mem, off + 1, len) THEN -1 ELSE len + 2

\* A faulty variant of verify_message: the size answered leaves out the
\* checksum byte.
verify_message_short(mem, off) ==
    LET len == mem[off]
    IN  IF mem[off + len + 1] # XorRange(mem, off + 1, len)
        THEN -1
        ELSE len + 1

\* A faulty variant of verify_message: the checksum is not compared.
verify_message_nocheck(mem, off) == mem[off] + 2

(***************************************************************************)
(* verify_message(&mem[off]): -1 on a checksum mismatch, else the size of  *)
(* the frame.                                                              *)
(***************************************************************************)
verify_message(mem, off) ==
    LET len == mem[off]
    IN  IF mem[off + len + 1] # XorRange(mem, off + 1, len)
        THEN -1
        ELSE len + 2

\* the offsets verify_message(&mem[off]) reads
VerifyReads(mem, off) == off..(off + mem[off] + 1)

(***************************************************************************)
(* State.                                                                  *)
(***************************************************************************)
VARIABLES
    \* the process: "running", "aborted" (a failed assertion) or "exited"
    proc,
    \* what the process has printed
    out,
    \* main/run_test: position, and the locals and statics it sets
    opc, nsec, ncpu, nworkers, created, joined,
    \* the stop flag and whether the alarm is pending
    stop, armed,
    \* the barrier, the ring buffer's memory, each worker's local record
    barrier, ringbuf_mem, t_mem,
    \* rbuf[0 .. RBUF_SIZE], the guard byte last
    rbuf,
    \* the ring buffer's control structure
    ring,
    \* the faults injected so far, and the frames <<offset, size>> in rbuf
    \* one payload byte of which was changed
    faults, flipped,
    \* ringbuf_stress, per worker: position, generator state, iterations
    \* started, and the locals buf, len, off, ret, rem
    pc, seed, iters, buf, len, off, ret, rem,
    \* the codec on its own: position, generator state, buflen, what
    \* generate_message answered, the frame, what verify_message answered
    cpc, cseed, cbuflen, cgen, cframe, cret

orchVars   == <<opc, nsec, ncpu, nworkers, created, joined>>
resVars    == <<barrier, ringbuf_mem, t_mem>>
workerVars == <<pc, seed, iters, buf, len, off, ret, rem>>
codecVars  == <<cpc, cseed, cbuflen, cgen, cframe, cret>>
vars == <<proc, out, orchVars, stop, armed, resVars, rbuf, ring, faults,
          flipped, workerVars, codecVars>>

(***************************************************************************)
(* The ring buffer, from its contract: setup, register, acquire, produce,  *)
(* consume, release.  next is where the next reservation starts, written   *)
(* where the consumer reads next, end the watermark left by a wrap-around, *)
(* seen[w] the start of worker w's reservation in flight.                  *)
(***************************************************************************)
RBUF_OFF_MAX == -1

\* a ring over `space` bytes, nothing reserved, nobody registered
EmptyRing(space) ==
    [space |-> space, next |-> 0, end |-> RBUF_OFF_MAX,
     written |-> 0, seen |-> [w \in Workers |-> RBUF_OFF_MAX], reg |-> {}]

ringbuf_setup(space) == EmptyRing(space)

ringbuf_register(rb, w) == [rb EXCEPT !.reg = @ \cup {w}]

\* [rb |-> the ring afterwards, ret |-> the offset reserved, or -1]
ringbuf_acquire(rb, w, n) ==
    LET seen   == rb.next
        target == seen + n
        exceed == target > rb.space
        wrapto == IF exceed THEN n ELSE 0
    IN  IF seen < rb.written /\ target >= rb.written
        THEN [rb |-> rb, ret |-> -1]
        ELSE IF target >= rb.space
        THEN IF wrapto >= rb.written
             THEN [rb |-> rb, ret |-> -1]
             ELSE [rb  |-> [rb EXCEPT !.next = wrapto,
                                      !.end = IF exceed THEN seen ELSE @,
                                      !.seen[w] = IF exceed THEN 0 ELSE seen],
                   ret |-> IF exceed THEN 0 ELSE seen]
        ELSE [rb  |-> [rb EXCEPT !.next = target, !.seen[w] = seen],
              ret |-> seen]

ringbuf_produce(rb, w) == [rb EXCEPT !.seen[w] = RBUF_OFF_MAX]

\* the smallest element of a non-empty set of naturals
MinOf(S) == CHOOSE x \in S : \A y \in S : x <= y

\* [rb |-> the ring afterwards, len |-> bytes claimed, off |-> where]
RECURSIVE ringbuf_consume(_)
ringbuf_consume(rb) ==
    LET inflight == {rb.seen[w] : w \in rb.reg} \ {RBUF_OFF_MAX}
        ahead    == {o \in inflight : o >= rb.written}
        end      == IF rb.end = RBUF_OFF_MAX THEN rb.space ELSE rb.end
    IN  IF rb.written = rb.next
        THEN [rb |-> rb, len |-> 0, off |-> rb.written]
        ELSE IF rb.next < rb.written
        THEN IF ahead = {} /\ rb.written = end
             THEN ringbuf_consume([rb EXCEPT !.end = RBUF_OFF_MAX,
                                             !.written = 0])
             ELSE [rb  |-> rb,
                   len |-> MinOf(ahead \cup {end}) - rb.written,
                   off |-> rb.written]
        ELSE [rb  |-> rb,
              len |-> MinOf(ahead \cup {rb.next}) - rb.written,
              off |-> rb.written]

ringbuf_release(rb, n) ==
    [rb EXCEPT !.written = IF @ + n = rb.space THEN 0 ELSE @ + n]

(***************************************************************************)
(* memcpy(&mem[at], src, n), src a private buffer.  A write past the end    *)
(* of mem shows as mem having grown.                                       *)
(***************************************************************************)
memcpy(mem, at, src, n) ==
    [i \in DOMAIN mem \cup at..(at + n - 1) |->
        IF at <= i /\ i < at + n THEN src[i - at + 1] ELSE mem[i]]

\* memset(mem, c, n)
memset(mem, c, n) ==
    [i \in DOMAIN mem |-> IF i < n THEN c ELSE mem[i]]

(***************************************************************************)
(* The initial state: statics as the loader leaves them, no thread yet.    *)
(***************************************************************************)
NoMessage == [buf |-> <<>>, n |-> 0, len |-> 0, seed |-> Word(0)]

CodecIdle ==
    /\ cpc = "off" /\ cseed = Word(0) /\ cbuflen = 0
    /\ cgen = NoMessage /\ cframe = <<>> /\ cret = 0

HarnessInit ==
    /\ proc = "running" /\ out = <<>>
    /\ opc = "main" /\ nsec = 10 /\ ncpu \in 1..MaxProcs
    /\ nworkers = 0 /\ created = 0 /\ joined = 0
    /\ stop = FALSE /\ armed = FALSE
    /\ barrier = [state |-> "none", need |-> 0, count |-> 0]
    /\ ringbuf_mem = "none"
    /\ t_mem = [w \in Workers |-> "none"]
    /\ rbuf = [i \in 0..RBUF_SIZE |-> 0]
    /\ ring = EmptyRing(0)
    /\ faults = 0 /\ flipped = {}
    /\ pc = [w \in Workers |-> "none"]
    /\ seed = [w \in Workers |-> Word(INITIAL_SEED)]
    /\ iters = [w \in Workers |-> 0]
    /\ buf = [w \in Workers |-> <<>>]
    /\ len = [w \in Workers |-> 0]
    /\ off = [w \in Workers |-> 0]
    /\ ret = [w \in Workers |-> 0]
    /\ rem = [w \in Workers |-> 0]

Init == HarnessInit /\ CodecIdle

(***************************************************************************)
(* main and run_test.                                                      *)
(***************************************************************************)
\* main, lines 194-197: the optional duration, then the start marker
Main ==
    /\ proc = "running"
    /\ opc = "main"
    /\ \E arg \in {-1} \cup 0..MaxSec :
          nsec' = IF arg = -1 THEN nsec ELSE arg
    /\ out' = Append(out, "stress test")
    /\ opc' = "setup"
    /\ UNCHANGED <<proc, ncpu, nworkers, created, joined, stop, armed, resVars,
                   rbuf, ring, faults, flipped, workerVars, codecVars>>

\* A faulty variant of GuardFill: the guard byte is left out of the memset.
GuardFillShort(mem) == memset(mem, MAGIC_BYTE, RBUF_SIZE)

\* run_test, line 171: memset(rbuf, MAGIC_BYTE, sizeof(rbuf))
GuardFill(mem) == memset(mem, MAGIC_BYTE, RBUF_SIZE + 1)

\* A faulty variant of WorkerCount: the extra worker is forgotten.
WorkerCountNoExtra(n) == n

\* run_test, line 153: nworkers = sysconf(_SC_NPROCESSORS_CONF) + 1
WorkerCount(n) == n + 1

\* run_test, lines 153-171: the barrier, the stop flag, the ring buffer
Setup ==
    /\ proc = "running"
    /\ opc = "setup"
    /\ nworkers' = WorkerCount(ncpu)
    /\ barrier' = [state |-> "live", need |-> nworkers', count |-> 0]
    /\ stop' = FALSE
    /\ ringbuf_mem' = "live"
    /\ ring' = ringbuf_setup(RBUF_SIZE)
    /\ rbuf' = GuardFill(rbuf)
    /\ opc' = "alarm"
    /\ UNCHANGED <<proc, out, nsec, ncpu, created, joined, armed, t_mem,
                   faults, flipped, workerVars, codecVars>>

\* run_test, line 176: alarm(nsec); alarm(0) schedules nothing
Alarm ==
    /\ proc = "running"
    /\ opc = "alarm"
    /\ armed' = (nsec > 0)
    /\ opc' = "create"
    /\ UNCHANGED <<proc, out, nsec, ncpu, nworkers, created, joined, stop,
                   resVars, rbuf, ring, faults, flipped, workerVars,
                   codecVars>>

\* run_test, lines 178-183: one pthread_create, or the end of the loop
Create ==
    /\ proc = "running"
    /\ opc = "create"
    /\ IF created < nworkers
       THEN /\ pc' = [pc EXCEPT ![created] = "register"]
            /\ created' = created + 1
            /\ opc' = opc
       ELSE /\ opc' = "join"
            /\ UNCHANGED <<pc, created>>
    /\ UNCHANGED <<proc, out, nsec, ncpu, nworkers, joined, stop, armed,
                   resVars, rbuf, ring, faults, flipped, seed, iters, buf,
                   len, off, ret, rem, codecVars>>

\* run_test, lines 184-186: one pthread_join, or the end of the loop
Join ==
    /\ proc = "running"
    /\ opc = "join"
    /\ IF joined < nworkers
       THEN /\ pc[joined] = "exited"
            /\ joined' = joined + 1
            /\ opc' = opc
       ELSE /\ opc' = "teardown"
            /\ UNCHANGED joined
    /\ UNCHANGED <<proc, out, nsec, ncpu, nworkers, created, stop, armed,
                   resVars, rbuf, ring, faults, flipped, workerVars,
                   codecVars>>

\* run_test, lines 187-188: pthread_barrier_destroy, free(ringbuf)
Teardown ==
    /\ proc = "running"
    /\ opc = "teardown"
    /\ barrier' = [barrier EXCEPT !.state = "destroyed"]
    /\ ringbuf_mem' = "freed"
    /\ opc' = "ok"
    /\ UNCHANGED <<proc, out, nsec, ncpu, nworkers, created, joined, stop,
                   armed, t_mem, rbuf, ring, faults, flipped, workerVars,
                   codecVars>>

\* main, lines 199-200: the success marker and exit status 0
Ok ==
    /\ proc = "running"
    /\ opc = "ok"
    /\ out' = Append(out, "ok")
    /\ proc' = "exited"
    /\ opc' = "done"
    /\ UNCHANGED <<nsec, ncpu, nworkers, created, joined, stop, armed,
                   resVars, rbuf, ring, faults, flipped, workerVars,
                   codecVars>>

\* A faulty variant of ding: the handler also clears the guard byte.
DingClobber ==
    /\ proc = "running"
    /\ armed
    /\ armed' = FALSE
    /\ stop' = TRUE
    /\ rbuf' = [rbuf EXCEPT ![RBUF_SIZE] = 0]
    /\ UNCHANGED <<proc, out, orchVars, resVars, ring, faults, flipped,
                   workerVars, codecVars>>

\* ding, lines 136-141: the alarm expires and its handler sets the stop flag
Ding ==
    /\ proc = "running"
    /\ armed
    /\ armed' = FALSE
    /\ stop' = TRUE
    /\ UNCHANGED <<proc, out, orchVars, resVars, rbuf, ring, faults,
                   flipped, workerVars, codecVars>>

(***************************************************************************)
(* ringbuf_stress, worker w.                                               *)
(***************************************************************************)
\* lines 94-98: the local record is allocated and registered
Register(w) ==
    /\ proc = "running"
    /\ pc[w] = "register"
    /\ t_mem' = [t_mem EXCEPT ![w] = "live"]
    /\ ring' = ringbuf_register(ring, w)
    /\ ret' = [ret EXCEPT ![w] = 0]
    /\ pc' = [pc EXCEPT ![w] = "barrier1"]
    /\ UNCHANGED <<proc, out, orchVars, stop, armed, barrier, ringbuf_mem,
                   rbuf, faults, flipped, seed, iters, buf, len, off, rem,
                   codecVars>>

\* pthread_barrier_wait: the last of barrier.need arrivals releases the
\* workers blocked at `blocked`; all of them go on at `next`
BarrierWait(w, blocked, next) ==
    IF barrier.count + 1 = barrier.need
    THEN /\ barrier' = [barrier EXCEPT !.count = 0]
         /\ pc' = [v \in Workers |->
                      IF v = w \/ pc[v] = blocked THEN next ELSE pc[v]]
    ELSE /\ barrier' = [barrier EXCEPT !.count = @ + 1]
         /\ pc' = [pc EXCEPT ![w] = blocked]

\* A faulty variant of StartGate: the worker does not wait for the others.
StartGateSkip(w) ==
    /\ proc = "running"
    /\ pc[w] = "barrier1"
    /\ pc' = [pc EXCEPT ![w] = "loop"]
    /\ UNCHANGED <<proc, out, orchVars, stop, armed, resVars, rbuf,
                   ring, faults, flipped, seed, iters, buf, len, off, ret,
                   rem, codecVars>>

\* line 100: the start barrier
StartGate(w) ==
    /\ proc = "running"
    /\ pc[w] = "barrier1"
    /\ BarrierWait(w, "wait1", "loop")
    /\ UNCHANGED <<proc, out, orchVars, stop, armed, ringbuf_mem, t_mem, rbuf,
                   ring, faults, flipped, seed, iters, buf, len, off, ret,
                   rem, codecVars>>

\* the producer iterations started so far, over the workers up to w
RECURSIVE ItersUpTo(_)
ItersUpTo(w) == IF w < 0 THEN 0 ELSE iters[w] + ItersUpTo(w - 1)

\* line 106: rbuf[RBUF_SIZE] == MAGIC_BYTE
GuardOk(mem) == mem[RBUF_SIZE] = MAGIC_BYTE

\* lines 101-108: the stop flag, the guard check, the role
LoopTop(w) ==
    /\ proc = "running"
    /\ pc[w] = "loop"
    /\ IF stop
       THEN /\ pc' = [pc EXCEPT ![w] = "barrier2"]
            /\ UNCHANGED <<proc, iters>>
       ELSE IF ~GuardOk(rbuf)
       THEN /\ proc' = "aborted"
            /\ UNCHANGED <<pc, iters>>
       ELSE IF w = 0
       THEN /\ pc' = [pc EXCEPT ![w] = "consume"]
            /\ UNCHANGED <<proc, iters>>
       ELSE /\ ItersUpTo(MaxProcs) < MaxIter
            /\ iters' = [iters EXCEPT ![w] = @ + 1]
            /\ pc' = [pc EXCEPT ![w] = "acquire"]
            /\ UNCHANGED proc
    /\ UNCHANGED <<out, orchVars, stop, armed, resVars, rbuf, ring, faults,
                   flipped, seed, buf, len, off, ret, rem, codecVars>>

\* lines 102-103, 110: buf, len, off and rem are locals of the loop body;
\* they are gone when an iteration ends
EndOfBody(w) ==
    /\ buf' = [buf EXCEPT ![w] = <<>>]
    /\ len' = [len EXCEPT ![w] = 0]
    /\ off' = [off EXCEPT ![w] = 0]
    /\ rem' = [rem EXCEPT ![w] = 0]

\* lines 109-111, r being what ringbuf_consume answered
ConsumeWith(w, r) ==
    /\ ring' = r.rb
    /\ IF r.len = 0
       THEN /\ pc' = [pc EXCEPT ![w] = "loop"]
            /\ UNCHANGED <<proc, len, off, rem>>
       ELSE /\ len' = [len EXCEPT ![w] = r.len]
            /\ rem' = [rem EXCEPT ![w] = r.len]
            /\ off' = [off EXCEPT ![w] = r.off]
            /\ IF r.off < RBUF_SIZE
               THEN pc' = [pc EXCEPT ![w] = "verify"] /\ UNCHANGED proc
               ELSE proc' = "aborted" /\ UNCHANGED pc
    /\ UNCHANGED <<out, orchVars, stop, armed, resVars, rbuf, flipped, seed,
                   iters, buf, ret, codecVars>>

\* line 109: ringbuf_consume; line 111: assert(off < RBUF_SIZE)
Consume(w) ==
    /\ proc = "running"
    /\ pc[w] = "consume"
    /\ ConsumeWith(w, ringbuf_consume(ring))
    /\ UNCHANGED faults

\* what verify_message(&mem[o]) may return: a read past the end of mem
\* is undefined, the comparison of the checksum can then go either way
VerifyOutcomes(mem, o) ==
    IF VerifyReads(mem, o) \subseteq DOMAIN mem
    THEN {verify_message(mem, o)}
    ELSE {-1, mem[o] + 2}

\* lines 112-117: one pass of the decode loop
Verify(w) ==
    /\ proc = "running"
    /\ pc[w] = "verify"
    /\ \E r \in VerifyOutcomes(rbuf, off[w]) :
           /\ ret' = [ret EXCEPT ![w] = r]
           /\ IF r > 0 /\ r <= rem[w]
              THEN /\ off' = [off EXCEPT ![w] = @ + r]
                   /\ rem' = [rem EXCEPT ![w] = @ - r]
                   /\ pc' = [pc EXCEPT ![w] =
                                IF rem[w] - r = 0 THEN "release" ELSE "verify"]
                   /\ UNCHANGED proc
              ELSE /\ proc' = "aborted"
                   /\ UNCHANGED <<pc, off, rem>>
    /\ UNCHANGED <<out, orchVars, stop, armed, resVars, rbuf, ring, faults,
                   flipped, seed, iters, buf, len, codecVars>>

\* A faulty variant of Release: what is released is the count that remains
\* rather than the length of the span.
ReleaseRem(w) ==
    /\ proc = "running"
    /\ pc[w] = "release"
    /\ ring' = ringbuf_release(ring, rem[w])
    /\ pc' = [pc EXCEPT ![w] = "loop"]
    /\ EndOfBody(w)
    /\ UNCHANGED <<proc, out, orchVars, stop, armed, resVars, rbuf, faults,
                   flipped, seed, iters, ret, codecVars>>

\* lines 118-120: ringbuf_release, then the next iteration
Release(w) ==
    /\ proc = "running"
    /\ pc[w] = "release"
    /\ ring' = ringbuf_release(ring, len[w])
    /\ pc' = [pc EXCEPT ![w] = "loop"]
    /\ EndOfBody(w)
    /\ UNCHANGED <<proc, out, orchVars, stop, armed, resVars, rbuf, faults,
                   flipped, seed, iters, ret, codecVars>>

\* A faulty variant of Acquired: the failure value is taken for an offset.
AcquiredAlways(r) == TRUE

\* line 123: (ret = ringbuf_acquire(...)) != -1
Acquired(r) == r # -1

\* A faulty variant of AcquireWith: a producer that got no space tries
\* again in the same iteration.
AcquireWithRetry(w, g, a) ==
    /\ seed' = [seed EXCEPT ![w] = g.seed]
    /\ ring' = a.rb
    /\ ret' = [ret EXCEPT ![w] = a.ret]
    /\ IF Acquired(a.ret)
       THEN /\ buf' = [buf EXCEPT ![w] = g.buf]
            /\ len' = [len EXCEPT ![w] = g.n]
            /\ off' = [off EXCEPT ![w] = ToSizeT(a.ret)]
            /\ IF ToSizeT(a.ret) < RBUF_SIZE
               THEN pc' = [pc EXCEPT ![w] = "copy"] /\ UNCHANGED proc
               ELSE proc' = "aborted" /\ UNCHANGED pc
       ELSE UNCHANGED <<pc, proc, buf, len, off>>
    /\ UNCHANGED <<out, orchVars, stop, armed, resVars, rbuf, flipped, iters,
                   rem, codecVars>>

\* lines 122-125, g being the message generated and a what
\* ringbuf_acquire answered
AcquireWith(w, g, a) ==
    /\ seed' = [seed EXCEPT ![w] = g.seed]
    /\ ring' = a.rb
    /\ ret' = [ret EXCEPT ![w] = a.ret]
    /\ IF Acquired(a.ret)
       THEN /\ buf' = [buf EXCEPT ![w] = g.buf]
            /\ len' = [len EXCEPT ![w] = g.n]
            /\ off' = [off EXCEPT ![w] = ToSizeT(a.ret)]
            /\ IF ToSizeT(a.ret) < RBUF_SIZE
               THEN pc' = [pc EXCEPT ![w] = "copy"] /\ UNCHANGED proc
               ELSE proc' = "aborted" /\ UNCHANGED pc
       ELSE /\ pc' = [pc EXCEPT ![w] = "loop"]
            /\ UNCHANGED <<proc, buf, len, off>>
    /\ UNCHANGED <<out, orchVars, stop, armed, resVars, rbuf, flipped, iters,
                   rem, codecVars>>

\* lines 122-125: generate_message, ringbuf_acquire, assert(off < RBUF_SIZE)
Acquire(w) ==
    /\ proc = "running"
    /\ pc[w] = "acquire"
    /\ \E g \in {generate_message(seed[w], BufSize - 1)} :
           AcquireWith(w, g, ringbuf_acquire(ring, w, g.n))
    /\ UNCHANGED faults

\* A faulty variant of CopyIn: the last byte of the frame is not copied.
CopyInShort(mem, at, src, n) == memcpy(mem, at, src, n - 1)

\* line 126: memcpy(&rbuf[off], buf, len)
CopyIn(mem, at, src, n) == memcpy(mem, at, src, n)

\* A faulty variant of Copy: the stop flag is honoured in mid-iteration,
\* the worker leaving for the end barrier with its reservation in flight.
CopyOrQuit(w) ==
    /\ proc = "running"
    /\ pc[w] = "copy"
    /\ IF stop
       THEN /\ pc' = [pc EXCEPT ![w] = "barrier2"]
            /\ UNCHANGED <<rbuf, flipped>>
       ELSE /\ rbuf' = memcpy(rbuf, off[w], buf[w], len[w])
            /\ flipped' = flipped
            /\ pc' = [pc EXCEPT ![w] = "produce"]
    /\ UNCHANGED <<proc, out, orchVars, stop, armed, resVars, ring, faults,
                   seed, iters, buf, len, off, ret, rem, codecVars>>

\* line 126
Copy(w) ==
    /\ proc = "running"
    /\ pc[w] = "copy"
    /\ rbuf' = CopyIn(rbuf, off[w], buf[w], len[w])
    /\ flipped' = {f \in flipped : f[1] + f[2] <= off[w]
                                    \/ off[w] + len[w] <= f[1]}
    /\ pc' = [pc EXCEPT ![w] = "produce"]
    /\ UNCHANGED <<proc, out, orchVars, stop, armed, resVars, ring, faults,
                   seed, iters, buf, len, off, ret, rem, codecVars>>

\* lines 127-129: ringbuf_produce, then the next iteration
Produce(w) ==
    /\ proc = "running"
    /\ pc[w] = "produce"
    /\ ring' = ringbuf_produce(ring, w)
    /\ pc' = [pc EXCEPT ![w] = "loop"]
    /\ EndOfBody(w)
    /\ UNCHANGED <<proc, out, orchVars, stop, armed, resVars, rbuf, faults,
                   flipped, seed, iters, ret, codecVars>>

\* A faulty variant of EndGate: the worker does not wait for the others.
EndGateSkip(w) ==
    /\ proc = "running"
    /\ pc[w] = "barrier2"
    /\ pc' = [pc EXCEPT ![w] = "free"]
    /\ UNCHANGED <<proc, out, orchVars, stop, armed, resVars, rbuf,
                   ring, faults, flipped, seed, iters, buf, len, off, ret,
                   rem, codecVars>>

\* line 130: the end barrier
EndGate(w) ==
    /\ proc = "running"
    /\ pc[w] = "barrier2"
    /\ BarrierWait(w, "wait2", "free")
    /\ UNCHANGED <<proc, out, orchVars, stop, armed, ringbuf_mem, t_mem, rbuf,
                   ring, faults, flipped, seed, iters, buf, len, off, ret,
                   rem, codecVars>>

\* lines 131-132: free(t), pthread_exit
Free(w) ==
    /\ proc = "running"
    /\ pc[w] = "free"
    /\ t_mem' = [t_mem EXCEPT ![w] = "freed"]
    /\ pc' = [pc EXCEPT ![w] = "exited"]
    /\ UNCHANGED <<proc, out, orchVars, stop, armed, barrier, ringbuf_mem,
                   rbuf, ring, faults, flipped, seed, iters, buf, len, off,
                   ret, rem, codecVars>>

Next ==
    \/ Main \/ Setup \/ Alarm \/ Create \/ Join \/ Teardown \/ Ok
    \/ Ding
    \/ \E w \in Workers :
          \/ Register(w) \/ StartGate(w) \/ LoopTop(w)
          \/ Consume(w) \/ Verify(w) \/ Release(w)
          \/ Acquire(w) \/ Copy(w) \/ Produce(w)
          \/ EndGate(w) \/ Free(w)

Spec == Init /\ [][Next]_vars

\* the bits changed in the one byte
FlipMasks == {1, 128, 255}

(***************************************************************************)
(* Faults.  The harness exists to catch a ring buffer that misbehaves; the *)
(* specifications below run it against one that does, MaxFaults times at   *)
(* most in a run.                                                          *)
(***************************************************************************)
\* a producer's frame, reserved and copied in but not yet published, has
\* one payload byte changed in the shared array
Flip(w) ==
    /\ proc = "running"
    /\ pc[w] = "produce"
    /\ faults < MaxFaults
    /\ ring.seen[w] = off[w]
    /\ <<off[w], len[w]>> \notin flipped
    /\ \E i \in (off[w] + 1)..(off[w] + len[w] - 2), m \in FlipMasks :
           rbuf' = [rbuf EXCEPT ![i] = Xor(@, m)]
    /\ flipped' = flipped \cup {<<off[w], len[w]>>}
    /\ faults' = faults + 1
    /\ UNCHANGED <<proc, out, orchVars, stop, armed, resVars, ring,
                   workerVars, codecVars>>

FlipNext == Next \/ \E w \in Workers : Flip(w)

FlipSpec == Init /\ [][FlipNext]_vars

\* the offsets a misbehaving ringbuf_acquire may answer for n bytes: any
\* place where the n bytes still end inside rbuf, guard byte included, or
\* the first offset past the ring
BadOffsets(n) == {o \in 0..RBUF_SIZE : o + n <= RBUF_SIZE + 1} \cup {RBUF_SIZE}

\* lines 122-125, ringbuf_acquire answering an offset of its own making
\* and recording nothing
AcquireBad(w) ==
    /\ proc = "running"
    /\ pc[w] = "acquire"
    /\ faults < MaxFaults
    /\ \E g \in {generate_message(seed[w], BufSize - 1)} :
           \E o \in BadOffsets(g.n) :
               AcquireWith(w, g, [rb |-> ring, ret |-> o])
    /\ faults' = faults + 1

\* lines 109-111, ringbuf_consume answering a span that starts past the ring
ConsumeBad(w) ==
    /\ proc = "running"
    /\ pc[w] = "consume"
    /\ faults < MaxFaults
    /\ ConsumeWith(w, [rb |-> ring, len |-> 2, off |-> RBUF_SIZE])
    /\ faults' = faults + 1

FaultNext == Next \/ \E w \in Workers : AcquireBad(w) \/ ConsumeBad(w)

FaultSpec == Init /\ [][FaultNext]_vars

(***************************************************************************)
(* Failures of the setup: pthread_create, calloc and ringbuf_register may  *)
(* fail.  err() ends the process with EXIT_FAILURE, a failed assert aborts *)
(* it.                                                                     *)
(***************************************************************************)
\* run_test, lines 179-182: pthread_create fails, err(EXIT_FAILURE, ...)
CreateFail ==
    /\ proc = "running"
    /\ opc = "create"
    /\ created < nworkers
    /\ proc' = "failed"
    /\ UNCHANGED <<out, orchVars, stop, armed, resVars, rbuf, ring, faults,
                   flipped, workerVars, codecVars>>

\* A faulty variant of AllocFail: the worker goes on without its record.
AllocFailIgnored(w) ==
    /\ proc = "running"
    /\ pc[w] = "register"
    /\ t_mem' = [t_mem EXCEPT ![w] = "null"]
    /\ pc' = [pc EXCEPT ![w] = "barrier1"]
    /\ UNCHANGED <<proc, out, orchVars, stop, armed, barrier, ringbuf_mem,
                   rbuf, ring, faults, flipped, seed, iters, buf, len, off,
                   ret, rem, codecVars>>

\* lines 94-95: calloc answers NULL, assert(t != NULL) fails
AllocFail(w) ==
    /\ proc = "running"
    /\ pc[w] = "register"
    /\ t_mem' = [t_mem EXCEPT ![w] = "null"]
    /\ proc' = "aborted"
    /\ UNCHANGED <<out, orchVars, stop, armed, barrier, ringbuf_mem, rbuf,
                   ring, faults, flipped, workerVars, codecVars>>

\* lines 94-98: ringbuf_register answers -1, assert(ret == 0) fails
RegisterFail(w) ==
    /\ proc = "running"
    /\ pc[w] = "register"
    /\ t_mem' = [t_mem EXCEPT ![w] = "live"]
    /\ ret' = [ret EXCEPT ![w] = -1]
    /\ proc' = "aborted"
    /\ UNCHANGED <<out, orchVars, stop, armed, barrier, ringbuf_mem, rbuf,
                   ring, faults, flipped, pc, seed, iters, buf, len, off,
                   rem, codecVars>>

SetupFailNext ==
    Next \/ CreateFail \/ \E w \in Workers : AllocFail(w) \/ RegisterFail(w)

SetupFailSpec == Init /\ [][SetupFailNext]_vars

(***************************************************************************)
(* The codec on its own: generate_message fills a buffer of buflen bytes   *)
(* from a generator state, verify_message reads the frame back, with or    *)
(* without one payload byte changed in between.  The buffer is the one     *)
(* ringbuf_stress declares, MIN(256, RBUF_SIZE) bytes less one, for ring   *)
(* buffers of 4 and 5 bytes, of RBUF_SIZE and of 256 bytes or more.        *)
(***************************************************************************)
BufLens == {3, 4, BufSize - 1, 255}

Seeds == {Word(n) : n \in 1..MaxSeed} \cup {Word(INITIAL_SEED)}

CodecInit ==
    /\ HarnessInit /\ ncpu = 1
    /\ cpc = "generate" /\ cseed \in Seeds /\ cbuflen \in BufLens
    /\ cgen = NoMessage /\ cframe = <<>> /\ cret = 0

\* line 122: ret = generate_message(buf, buflen)
CodecGenerate ==
    /\ cpc = "generate"
    /\ \E g \in {generate_message(cseed, cbuflen)} :
           /\ cgen' = g
           /\ cframe' = g.buf
           /\ cseed' = g.seed
    /\ cpc' = "made"
    /\ UNCHANGED <<proc, out, orchVars, stop, armed, resVars, rbuf, ring,
                   faults, flipped, workerVars, cbuflen, cret>>

\* one payload byte of the frame takes another value
CodecFlip ==
    /\ cpc = "made"
    /\ \E i \in 2..(cgen.len + 1), m \in FlipMasks :
           cframe' = [cframe EXCEPT ![i] = Xor(@, m)]
    /\ cpc' = "flipped"
    /\ UNCHANGED <<proc, out, orchVars, stop, armed, resVars, rbuf, ring,
                   faults, flipped, workerVars, cseed, cbuflen, cgen, cret>>

\* line 114: ret = verify_message(&rbuf[off])
CodecVerify ==
    /\ cpc \in {"made", "flipped"}
    /\ cret' = verify_message(SeqMem(cframe), 0)
    /\ cpc' = IF cpc = "made" THEN "checked" ELSE "checked flipped"
    /\ UNCHANGED <<proc, out, orchVars, stop, armed, resVars, rbuf, ring,
                   faults, flipped, workerVars, cseed, cbuflen, cgen, cframe>>

CodecNext == CodecGenerate \/ CodecFlip \/ CodecVerify

CodecSpec == CodecInit /\ [][CodecNext]_vars

(***************************************************************************)
(* Properties of a run over a ring buffer that honours its contract.       *)
(***************************************************************************)
\* the r bytes of mem from o on are frames back to back, each with the
\* checksum of its payload
RECURSIVE SpanOK(_, _, _)
SpanOK(mem, o, r) ==
    \/ r = 0
    \/ /\ r > 0
       /\ o \in DOMAIN mem
       /\ o + mem[o] + 1 \in DOMAIN mem
       /\ verify_message(mem, o) > 0
       /\ verify_message(mem, o) <= r
       /\ SpanOK(mem, o + verify_message(mem, o), r - verify_message(mem, o))

\* C1: whatever the interleaving of the producers and the consumer, what is
\* left of the span the consumer is decoding consists of complete frames
\* whose checksum is the xor of their payload, and no verify_message of the
\* consumer has returned -1.
C1_FramesIntact ==
    /\ ret[0] # -1
    /\ pc[0] = "verify" => SpanOK(rbuf, off[0], rem[0])

\* the consumer has decoded the first frame of a span of two frames
C1_Witness ==
    /\ pc[0] = "verify" /\ len[0] > rem[0] /\ rem[0] > 2 /\ ret[0] > 2

\* C2: from the first pthread_create on the guard byte holds MAGIC_BYTE, in
\* particular whenever a worker is at the guard check, and no producer is
\* about to copy a frame that reaches index RBUF_SIZE.
C2_GuardIntact ==
    /\ created > 0 => rbuf[RBUF_SIZE] = MAGIC_BYTE
    /\ \A w \in Workers : pc[w] = "loop" => GuardOk(rbuf)
    /\ \A w \in Workers : pc[w] = "copy" => off[w] + len[w] <= RBUF_SIZE
    /\ DOMAIN rbuf = 0..RBUF_SIZE

\* a worker is at the guard check after a frame was copied up to the byte
\* before the guard
C2_Witness ==
    /\ ~stop
    /\ rbuf[RBUF_SIZE - 1] # MAGIC_BYTE
    /\ \E w \in Workers : pc[w] = "loop"

\* the offset the consumer's span started at
ClaimedOff == off[0] - (len[0] - rem[0])

\* C3: the offset a producer got from ringbuf_acquire and the offset the
\* consumer got from ringbuf_consume lie in [0, RBUF_SIZE), and no
\* assertion has failed.
C3_OffsetsInRange ==
    /\ proc # "aborted"
    /\ \A w \in Workers \ {0} : 0 <= off[w] /\ off[w] < RBUF_SIZE
    /\ 0 <= ClaimedOff /\ ClaimedOff < RBUF_SIZE

\* the consumer has claimed a span at a non-zero offset that a producer
\* had acquired
C3_Witness ==
    /\ pc[0] = "verify" /\ rem[0] = len[0] /\ off[0] > 0
    /\ \E w \in Workers \ {0} : ret[w] = off[0]

(***************************************************************************)
(* Termination.  The threads are scheduled fairly: the main thread, every  *)
(* worker and the delivery of a pending alarm each take a step that stays  *)
(* possible.                                                               *)
(***************************************************************************)
MainThread == Main \/ Setup \/ Alarm \/ Create \/ Join \/ Teardown \/ Ok

WorkerThread(w) ==
    \/ Register(w) \/ StartGate(w) \/ LoopTop(w)
    \/ Consume(w) \/ Verify(w) \/ Release(w)
    \/ Acquire(w) \/ Copy(w) \/ Produce(w)
    \/ EndGate(w) \/ Free(w)

Fairness ==
    /\ WF_vars(MainThread)
    /\ WF_vars(Ding)
    /\ \A w \in Workers : WF_vars(WorkerThread(w))

FairSpec == Init /\ [][Next]_vars /\ Fairness

\* the process has printed both markers and exited with status 0
Succeeded == proc = "exited" /\ out = <<"stress test", "ok">>

\* C4: for every configured duration the stop flag is eventually set, every
\* worker passes the end barrier and is joined, and the process prints the
\* success marker and exits with status 0.
C4_Terminates == <>(stop /\ joined = nworkers /\ Succeeded)

\* with a pending alarm the run does end that way
C4_TerminatesWhenArmed == armed ~> (stop /\ joined = nworkers /\ Succeeded)


(***************************************************************************)
(* The codec.                                                              *)
(***************************************************************************)
\* C5: for every payload length L that generate_message(buf, buflen) chooses,
\* L in [0, buflen - 2), verify_message on the unmodified frame returns
\* L + 2, never -1, which is the size generate_message returned; for L = 0
\* the frame is the two bytes 0x00 0x00 and verify_message returns 2.
C5_RoundTrip ==
    cpc = "checked" =>
        /\ cgen.len \in 0..(cbuflen - 3)
        /\ Len(cframe) = cgen.len + 2
        /\ cret = cgen.len + 2
        /\ cret = cgen.n
        /\ cgen.len = 0 => cframe = <<0, 0>> /\ cret = 2

C5_Witness == cpc = "checked" /\ cgen.len = 0 /\ cret = 2

\* the long frames are among those read back
C5_LongFrames == cpc = "checked" /\ cgen.len > 128 /\ cret = cgen.n

\* One payload byte changed: verify_message answers -1.
CodecFlipDetected == cpc = "checked flipped" => cret = -1

CodecFlipSeen == cpc = "checked flipped" /\ cgen.len = 1

(***************************************************************************)
(* Corruption and fail-fast reporting.                                     *)
(***************************************************************************)
\* C6: a frame of generate_message one payload byte of which was changed
\* makes verify_message answer -1; the consumer never gets past such a
\* frame, so the span that holds it is not released, and the -1 is the
\* failed assert(ret > 0) that aborts the process.
C6_CorruptionAborts ==
    /\ \A f \in flipped :
          /\ verify_message(rbuf, f[1]) = -1
          /\ pc[0] \in {"verify", "release"} =>
                ~(ClaimedOff <= f[1] /\ f[1] < off[0])
    /\ ret[0] = -1 => proc = "aborted" /\ pc[0] = "verify"

C6_Witness ==
    /\ proc = "aborted" /\ ret[0] = -1 /\ pc[0] = "verify"
    /\ \E f \in flipped : f[1] = off[0]

\* what the harness looks for has happened: the guard byte is not the
\* sentinel, a decoded frame's checksum did not match, or an offset the
\* ring buffer answered lies past the ring
OffsetPastRing ==
    \/ ClaimedOff >= RBUF_SIZE
    \/ \E w \in Workers \ {0} : off[w] >= RBUF_SIZE

Violation ==
    \/ rbuf[RBUF_SIZE] # MAGIC_BYTE
    \/ ret[0] = -1
    \/ OffsetPastRing

\* C7: the process prints the success marker and exits with status 0 only
\* on runs without a violation (no checksum mismatch in a consumed frame,
\* no overwrite of the guard byte, no offset outside [0, RBUF_SIZE)); a run
\* with a violation never reports success.
C7_FailFast == Violation => ~Succeeded

\* A violation that one of the asserts looked at has aborted the process:
\* the checksum of a decoded frame, the offsets answered.
ObservedViolationAborts ==
    /\ ret[0] = -1 => proc = "aborted"
    /\ OffsetPastRing => proc = "aborted"

\* the guard byte is looked at when an iteration starts, lines 105-106:
\* a worker goes on from there only if the byte is the sentinel
GuardObserved ==
    [][\A w \in Workers :
          pc[w] = "loop" /\ pc'[w] \in {"consume", "acquire"}
              => rbuf[RBUF_SIZE] = MAGIC_BYTE]_vars

(***************************************************************************)
(* The end barrier and the stop flag.                                      *)
(***************************************************************************)
\* worker w is inside the loop of lines 101-129
InLoop(w) ==
    pc[w] \in {"loop", "consume", "verify", "release",
               "acquire", "copy", "produce"}

\* worker w has arrived at the end barrier, or is past it
AtEndGate(w) == pc[w] \in {"barrier2", "wait2", "free", "exited"}
PastEndGate(w) == pc[w] \in {"free", "exited"}

\* the workers run_test creates
Spawned == 0..(nworkers - 1)

\* C8: no worker has freed its record, and main has neither destroyed the
\* barrier nor freed the ring buffer, while a worker is inside its loop:
\* by then every worker of the run has arrived at the end barrier.  The
\* ring buffer is freed only when every worker has exited and was joined.
C8_EndGate ==
    /\ ((\E w \in Workers : t_mem[w] = "freed")
           \/ barrier.state = "destroyed" \/ ringbuf_mem = "freed")
          => /\ \A w \in Workers : ~InLoop(w)
             /\ \A w \in Spawned : pc[w] \in {"wait2", "free", "exited"}
    /\ (barrier.state = "destroyed" \/ ringbuf_mem = "freed")
          => /\ joined = nworkers
             /\ \A w \in Spawned : pc[w] = "exited" /\ t_mem[w] = "freed"

\* one worker has freed its record while another, released from the end
\* barrier, has yet to go on
C8_Witness ==
    /\ \E w \in Workers : t_mem[w] = "freed"
    /\ \E w \in Workers : pc[w] = "free" /\ iters[w] > 0
    /\ ringbuf_mem = "live"

\* producer w holds a reservation acquired but not yet marked produced
Reserving(w) ==
    w # 0 /\ (ring.seen[w] # RBUF_OFF_MAX \/ pc[w] \in {"copy", "produce"})

\* the consumer holds a span consumed but not yet released
Claiming == len[0] > 0 \/ pc[0] \in {"verify", "release"}

\* C9, as stated: whenever some worker is at or past the end barrier, no
\* producer holds a reservation in flight and the consumer holds no span.
C9_NoneHoldsWhenOneAtEndGate ==
    (\E w \in Workers : AtEndGate(w))
        => ~Claiming /\ \A v \in Workers : ~Reserving(v)

\* C9: the stop flag is tested only where an iteration starts, so a worker
\* at or past the end barrier has left nothing behind, neither a
\* reservation in flight nor a span unreleased; and once a worker is past
\* the end barrier no worker holds either.
C9_NothingLeftBehind ==
    /\ \A w \in Workers \ {0} : AtEndGate(w) => ~Reserving(w)
    /\ AtEndGate(0) => ~Claiming
    /\ (\E w \in Workers : PastEndGate(w))
          => ~Claiming /\ \A v \in Workers : ~Reserving(v)

\* the stop flag is up and a producer waits at the end barrier, its
\* iterations complete, while the consumer is still in the middle of a span
C9_Witness ==
    /\ stop
    /\ \E w \in Workers \ {0} : pc[w] = "wait2" /\ iters[w] > 0
    /\ pc[0] = "verify" /\ rem[0] < len[0]

(***************************************************************************)
(* The workers and their roles.                                            *)
(***************************************************************************)
\* C10: run_test creates ncpu + 1 workers, with the ids 0 .. ncpu; the one
\* with id 0 is the consumer in every iteration, every other one a
\* producer, so there is one consumer and at least one producer, and no
\* worker is ever found in the other role.
C10_Roles ==
    /\ opc \notin {"main", "setup"} => nworkers = ncpu + 1 /\ nworkers >= 2
    /\ created <= nworkers
    /\ {w \in Workers : pc[w] # "none"} = 0..(created - 1)
    /\ opc \in {"join", "teardown", "ok", "done"} => created = ncpu + 1
    /\ \A w \in Workers :
          /\ pc[w] \in {"consume", "verify", "release"} => w = 0
          /\ pc[w] \in {"acquire", "copy", "produce"} => w # 0
          /\ ring.seen[w] # RBUF_OFF_MAX => w # 0
          /\ w \in ring.reg => pc[w] # "none"

C10_Witness ==
    /\ ncpu = MaxProcs /\ created = ncpu + 1
    /\ pc[0] = "verify"
    /\ \A w \in Workers \ {0} : pc[w] \in {"acquire", "copy", "produce"}

(***************************************************************************)
(* The start barrier.                                                      *)
(***************************************************************************)
\* worker w has not yet arrived at the start barrier
BeforeStartGate(w) == pc[w] \in {"none", "register", "barrier1"}

\* C11: no worker is in its loop, let alone at its first ringbuf_acquire or
\* ringbuf_consume, before all nworkers workers were created, have
\* allocated their record, have registered with the ring buffer and have
\* arrived at the start barrier.
C11_StartGate ==
    (\E w \in Workers : InLoop(w) \/ AtEndGate(w))
        => /\ created = nworkers
           /\ \A v \in Spawned :
                 /\ ~BeforeStartGate(v)
                 /\ t_mem[v] # "none"
                 /\ v \in ring.reg

\* the consumer is at its first ringbuf_consume while producers, let go by
\* the barrier, have yet to start their first iteration; before that one
\* worker waited at the barrier for the others
C11_Witness ==
    /\ ncpu = MaxProcs
    /\ pc[0] = "consume"
    /\ \A w \in Workers \ {0} : pc[w] = "loop" /\ iters[w] = 0

(***************************************************************************)
(* The consumer's span.                                                    *)
(***************************************************************************)
\* C12: the consumer decodes the span (len, off) of a non-empty
\* ringbuf_consume frame after frame from off; the sizes decoded so far
\* and the count that remains add up to len, the next frame is never
\* larger than what remains, and the loop ends when nothing remains, with
\* no part of a frame left over.
C12_SpanExact ==
    /\ proc # "aborted"
    /\ pc[0] \in {"verify", "release"} =>
          /\ len[0] > 0
          /\ rem[0] \in 0..len[0]
          /\ off[0] - ring.written = len[0] - rem[0]
    /\ pc[0] = "verify" =>
          /\ rem[0] >= 2
          /\ verify_message(rbuf, off[0]) \in 2..rem[0]
    /\ pc[0] = "release" => rem[0] = 0

\* a span of several frames has been decoded to its end
C12_Witness ==
    /\ pc[0] = "release" /\ rem[0] = 0
    /\ ret[0] > 2 /\ len[0] > ret[0]

(***************************************************************************)
(* The producer's iteration.                                               *)
(***************************************************************************)
\* the bytes of rbuf that worker w has reserved
Reserved(w) == off[w]..(off[w] + len[w] - 1)

\* C13: after a successful ringbuf_acquire of len bytes at off the producer
\* copies the len bytes of its private frame to rbuf[off .. off + len - 1]
\* and only then calls ringbuf_produce, once for the reservation: the
\* reservation is in flight from the acquire until the frame is in place,
\* ringbuf_produce ends it from there and nowhere else, and no byte of rbuf
\* outside the reserved range is written.
C13_CopyThenProduce ==
    /\ [](\A w \in Workers \ {0} :
            /\ pc[w] = "copy" =>
                  /\ ring.seen[w] = off[w]
                  /\ len[w] = Len(buf[w])
                  /\ Reserved(w) \subseteq 0..(RBUF_SIZE - 1)
            /\ pc[w] = "produce" =>
                  /\ ring.seen[w] = off[w]
                  /\ \A i \in Reserved(w) : rbuf[i] = buf[w][i - off[w] + 1]
            /\ ring.seen[w] # RBUF_OFF_MAX => pc[w] \in {"copy", "produce"})
    /\ [][/\ \A w \in Workers \ {0} :
                ring.seen[w] # RBUF_OFF_MAX /\ ring'.seen[w] = RBUF_OFF_MAX
                    => pc[w] = "produce" /\ pc'[w] = "loop"
          /\ DOMAIN rbuf' = DOMAIN rbuf
          /\ \A i \in DOMAIN rbuf :
                rbuf'[i] # rbuf[i]
                    => \/ opc = "setup"
                       \/ \E w \in Workers \ {0} :
                             /\ pc[w] = "copy" /\ pc'[w] = "produce"
                             /\ i \in Reserved(w)]_vars

\* a frame is in place at a non-zero offset, not yet marked produced,
\* while another producer holds a reservation of its own
C13_Witness ==
    \E w \in Workers \ {0} :
        /\ pc[w] = "produce" /\ off[w] > 0
        /\ \A i \in Reserved(w) : rbuf[i] = buf[w][i - off[w] + 1]
        /\ \E v \in Workers \ {0, w} : pc[v] = "copy"

\* C14: when ringbuf_acquire answers -1 the producer's iteration changes
\* neither rbuf, guard byte included, nor the ring buffer: there is no
\* memcpy, no ringbuf_produce and no error, the worker is back where an
\* iteration starts, and its generator has moved on, so that the next
\* iteration generates a new message.
C14_FailedAcquire ==
    /\ [](\A w \in Workers \ {0} :
            pc[w] \in {"copy", "produce"} => ret[w] # -1)
    /\ [][\A w \in Workers \ {0} :
             pc[w] = "acquire" /\ seed'[w] # seed[w] /\ ret'[w] = -1
                 => /\ rbuf' = rbuf
                    /\ ring' = ring
                    /\ proc' = proc
                    /\ pc'[w] = "loop"
                    /\ buf'[w] = <<>> /\ len'[w] = 0]_vars

\* a producer was refused and is about to try again while frames lie in
\* the ring buffer
C14_Witness ==
    \E w \in Workers \ {0} :
        /\ pc[w] = "loop" /\ ret[w] = -1 /\ iters[w] > 0
        /\ ~stop /\ proc = "running"
        /\ ring.next # ring.written

\* C15: a ringbuf_consume that answers a length other than 0 is followed
\* by one ringbuf_release, of that length, once every frame of the span
\* has been verified, and nothing else releases; a ringbuf_consume that
\* answers 0 is followed by no read of a frame, no release and no error,
\* the consumer being back where an iteration starts.
C15_ReleaseOnce ==
    /\ [](/\ pc[0] \in {"verify", "release"} => len[0] > 0
          /\ pc[0] = "release" => rem[0] = 0)
    /\ [][/\ pc[0] = "consume" /\ pc'[0] = "verify"
                => len'[0] = ringbuf_consume(ring).len /\ len'[0] > 0
          /\ pc[0] = "consume" /\ pc'[0] = "loop"
                => /\ ringbuf_consume(ring).len = 0
                   /\ ring' = ringbuf_consume(ring).rb
                   /\ proc' = proc /\ ret'[0] = ret[0] /\ len'[0] = 0
          /\ pc[0] = "verify" => len'[0] = len[0]
          /\ pc[0] = "release" /\ pc'[0] # "release"
                => /\ ring' = ringbuf_release(ring, len[0])
                   /\ pc'[0] = "loop" /\ len'[0] = 0
          /\ ring'.written # ring.written
                => pc[0] \in {"consume", "release"} /\ pc'[0] # pc[0]]_vars

\* frames have been verified and released, and the consumer has since
\* found nothing to consume
C15_Witness ==
    /\ pc[0] = "loop" /\ ret[0] > 0 /\ len[0] = 0
    /\ ring.written > ret[0]
    /\ ringbuf_consume(ring).len = 0
    /\ ~stop

(***************************************************************************)
(* The size of a frame.                                                    *)
(***************************************************************************)
\* C16: a frame generated into the buffer of ringbuf_stress, buflen =
\* sizeof(buf) - 1 with sizeof(buf) = MIN(256, RBUF_SIZE), has a payload
\* length L in [0, buflen - 2) and the size L + 2: [0, 253) and at most 254
\* for the source's 256 bytes.  The size exceeds neither the private
\* buffer nor the capacity of the ring, and L is what the length byte
\* holds and what verify_message reads back.
C16_FrameSize ==
    cpc # "generate" =>
        /\ cgen.len \in 0..(cbuflen - 3)
        /\ cgen.n = cgen.len + 2
        /\ Len(cgen.buf) = cgen.n
        /\ cgen.n <= cbuflen + 1
        /\ cbuflen = 255 => cgen.len \in 0..252 /\ cgen.n <= 254
        /\ cbuflen = BufSize - 1 => cgen.n <= BufSize /\ cgen.n <= RBUF_SIZE
        /\ cgen.buf[1] = cgen.len
        /\ cpc = "checked" =>
              /\ SeqMem(cframe)[0] = cgen.len
              /\ cret = cgen.len + 2

\* a frame of more than 200 payload bytes out of the 256-byte buffer
C16_Witness ==
    /\ cpc = "checked" /\ cbuflen = 255
    /\ cgen.len > 200 /\ cframe[1] = cgen.len

(***************************************************************************)
(* Failures of the setup.                                                  *)
(***************************************************************************)
\* a pthread_create, a calloc of a worker's record or a ringbuf_register
\* has failed
SetupFailed ==
    \/ proc = "failed"
    \/ \E w \in Workers : t_mem[w] = "null"
    \/ \E w \in Workers : pc[w] = "register" /\ ret[w] = -1

\* C17: when the creation of a worker thread, the allocation of a worker's
\* record or its registration fails, the process ends there: no worker has
\* passed the start barrier, no ringbuf_acquire or ringbuf_consume was
\* performed, and the success marker is not printed.
C17_SetupFailureFatal ==
    SetupFailed =>
        /\ proc \in {"failed", "aborted"}
        /\ \A w \in Workers :
              /\ pc[w] \in {"none", "register", "barrier1", "wait1"}
              /\ iters[w] = 0
              /\ ring.seen[w] = RBUF_OFF_MAX
        /\ ring.next = 0 /\ ring.written = 0
        /\ out = <<"stress test">>

\* pthread_create fails for the last worker while the others wait at the
\* start barrier
C17_Witness ==
    /\ proc = "failed" /\ created = nworkers - 1
    /\ \A w \in 0..(created - 1) : pc[w] = "wait1"
    /\ ncpu = MaxProcs

(***************************************************************************)
(* The deadline handler.                                                   *)
(***************************************************************************)
\* C18: the deadline handler only sets the stop flag: the shared region with
\* its guard byte, the ring buffer and the workers' records stay as they
\* are; the flag is false when the deadline is armed, and once it is true
\* no step of a worker or of the orchestrator resets it.
C18_DingOnlyStops ==
    /\ [](armed => ~stop)
    /\ [][(~armed /\ armed') => (~stop /\ ~stop')]_vars
    /\ [][stop' # stop =>
            /\ stop' = TRUE
            /\ armed /\ ~armed'
            /\ UNCHANGED <<proc, out, orchVars, resVars, rbuf, ring,
                           workerVars>>]_vars
    /\ [][stop => stop']_vars

\* the handler ran while a producer held a reservation, and the run goes on
C18_Witness ==
    /\ stop /\ ~armed /\ proc = "running"
    /\ \E w \in Workers : pc[w] = "copy"
    /\ rbuf[RBUF_SIZE] = MAGIC_BYTE

(***************************************************************************)
(* The reads of the consumer.                                              *)
(***************************************************************************)
\* what is left of the span the consumer is decoding
Remaining == off[0]..(off[0] + rem[0] - 1)

\* C19: every byte verify_message reads for the consumer (the length byte,
\* the payload, the checksum byte) lies in what is left of the span that
\* ringbuf_consume returned, so inside that span and inside rbuf, before
\* the size it answers is compared with the count that remains.
C19_ReadsInsideSpan ==
    pc[0] = "verify" =>
        /\ VerifyReads(rbuf, off[0]) \subseteq Remaining
        /\ Remaining \subseteq ClaimedOff..(ClaimedOff + len[0] - 1)
        /\ ClaimedOff >= 0 /\ ClaimedOff + len[0] <= RBUF_SIZE
        /\ VerifyReads(rbuf, off[0]) \subseteq DOMAIN rbuf
        /\ RBUF_SIZE \notin VerifyReads(rbuf, off[0])

\* the consumer is about to verify the last frame of a span of several
\* frames: the checksum byte it reads is the last byte of the span
C19_Witness ==
    /\ pc[0] = "verify" /\ proc = "running"
    /\ rem[0] < len[0]
    /\ VerifyReads(rbuf, off[0]) = Remaining
    /\ rbuf[off[0]] > 0

(***************************************************************************)
(* One iteration of the loop.                                              *)
(***************************************************************************)
\* worker w is inside the body of its loop
InBody(w) ==
    pc[w] \in {"consume", "verify", "release", "acquire", "copy", "produce"}

\* the ways a worker's position changes from the top of the loop on
BodyEdges ==
    {<<"loop", "consume">>, <<"loop", "acquire">>, <<"loop", "barrier2">>,
     <<"consume", "verify">>, <<"consume", "loop">>,
     <<"verify", "release">>, <<"release", "loop">>,
     <<"acquire", "copy">>, <<"acquire", "loop">>,
     <<"copy", "produce">>, <<"produce", "loop">>}

\* C20: an iteration of a worker's loop ends without waiting for another
\* worker.  Inside the body the worker's next step is always possible; each
\* pass of the consumer's decode loop takes a frame of 2 <= ret <= rem bytes
\* off the count that remains, so there are at most len / 2 passes; a
\* producer calls ringbuf_acquire once and goes back to the top of the loop
\* when it fails; the body leads back to the test of the stop flag.
C20_IterationEnds ==
    /\ [](\A w \in Workers :
             InBody(w) /\ proc = "running" => ENABLED WorkerThread(w))
    /\ [](pc[0] = "verify" => 2 <= rem[0] /\ rem[0] <= len[0])
    /\ [][pc[0] = "verify" /\ <<off[0], proc>>' # <<off[0], proc>> =>
            /\ proc' = proc
            /\ 2 <= ret'[0] /\ ret'[0] <= rem[0]
            /\ rem'[0] = rem[0] - ret'[0]
            /\ pc'[0] = IF rem'[0] = 0 THEN "release" ELSE "verify"]_vars
    /\ [][\A w \in Workers :
            /\ pc[w] = "acquire" /\ seed'[w] # seed[w] =>
                  pc'[w] = IF ret'[w] = -1 THEN "loop" ELSE "copy"
            /\ (pc[w] = "loop" \/ InBody(w)) /\ pc'[w] # pc[w] =>
                  <<pc[w], pc'[w]>> \in BodyEdges]_vars
    /\ \A w \in Workers :
          InBody(w) ~> (pc[w] = "loop" \/ proc # "running")

\* the consumer is in a later pass of its decode loop while a producer,
\* refused by ringbuf_acquire, is back at the top of its loop
C20_Witness ==
    /\ proc = "running"
    /\ pc[0] = "verify" /\ rem[0] < len[0]
    /\ \E w \in Workers \ {0} : pc[w] = "loop" /\ ret[w] = -1
====
